---- MODULE Spec2Model ----
(***************************************************************************)
(* Model of Diligent::GLContext (GLContextAndroid.cpp): the manager of the *)
(* EGL display connection, pixel-format configuration, window surface and  *)
(* GLES context on Android, with its recovery paths.                       *)
(*                                                                         *)
(* The manager's fields are the variables named as in the source.  The EGL *)
(* implementation is the environment: every EGL call that can fail has a   *)
(* set of possible answers, restricted by what EGL guarantees for the      *)
(* arguments the code passes (a call on EGL_NO_DISPLAY fails, a context    *)
(* cannot be created on a display that is not initialised, ...).  A        *)
(* function of the manager is an operator from the state record before the *)
(* call to the set of state records it can end in, one per course of the   *)
(* platform's answers.  Exceptions (LOG_ERROR_AND_THROW) are the field     *)
(* thrown of the record; a handler that throws keeps every assignment made *)
(* before the throw.                                                       *)
(***************************************************************************)
EXTENDS Integers, Sequences, FiniteSets, TLC

VARIABLES
    display_, config_, surface_, context_, window_,
    context_valid_, egl_context_initialized_, gles_initialized_,
    major_version_, minor_version_,
    min_swap_interval_, max_swap_interval_,
    screen_width_, screen_height_,
    eglInitialized, eglSurfaces, eglContexts, glDebugMessageCallback,
    faults, lastOp, lastArg, prevOp, result, calls

mgr == <<display_, config_, surface_, context_, window_,
         context_valid_, egl_context_initialized_, gles_initialized_,
         major_version_, minor_version_,
         min_swap_interval_, max_swap_interval_,
         screen_width_, screen_height_>>

vars == <<mgr, eglInitialized, eglSurfaces, eglContexts, glDebugMessageCallback,
          faults, lastOp, lastArg, prevOp, result, calls>>

(***************************************************************************)
(* Handles and sentinels.                                                  *)
(***************************************************************************)
EGL_NO_DISPLAY == 0
EGL_NO_SURFACE == 0
EGL_NO_CONTEXT == 0
NullWindow == 0
\* The one display eglGetDisplay(EGL_DEFAULT_DISPLAY) hands out.
DefaultDisplay == 1
\* The native window the host owns.
AppWindow == 1
\* Value of a member the constructor's initialiser list does not set and no
\* code has assigned yet.
Indeterminate == -1
\* config_ before any eglChooseConfig has written it (no EGLConfig of the display).
IndeterminateConfig == "indeterminate"

\* Bounds of the platform model: how many surfaces / contexts EGL can hold
\* at once (creation fails with EGL_BAD_ALLOC beyond that).
MaxSurfaces == 2
MaxContexts == 1
\* How many calls the platform refuses in one run.
MaxFaults == 2
\* Largest swap interval a host requests.
MaxSwapRequest == 2

Windows == {NullWindow, AppWindow}
SwapRequests == 0..MaxSwapRequest

\* The configurations eglChooseConfig can return: 24-bit and 16-bit depth.
Cfg24 == "cfg_d24"
Cfg16 == "cfg_d16"
\* EGL_MIN_SWAP_INTERVAL / EGL_MAX_SWAP_INTERVAL of each configuration.
SwapBoundsOf(cfg) == IF cfg = Cfg24 THEN <<1, 1>> ELSE <<0, 1>>
\* Size (width, height) eglQuerySurface reports for the window.
WindowSize == <<4, 3>>
\* Version glGetIntegerv reports for a context made current by the host.
HostContextVersion == <<3, 1>>

\* es_versions[] of InitEGLContext.
es_versions == <<(<<3, 2>>), (<<3, 1>>), (<<3, 0>>)>>

VersionCode(v) == v[1] * 10 + v[2]

(***************************************************************************)
(* The state record threaded through a handler.                            *)
(***************************************************************************)
State ==
    [display_ |-> display_, config_ |-> config_, surface_ |-> surface_,
     context_ |-> context_, window_ |-> window_,
     context_valid_ |-> context_valid_,
     egl_context_initialized_ |-> egl_context_initialized_,
     gles_initialized_ |-> gles_initialized_,
     major_version_ |-> major_version_, minor_version_ |-> minor_version_,
     min_swap_interval_ |-> min_swap_interval_,
     max_swap_interval_ |-> max_swap_interval_,
     screen_width_ |-> screen_width_, screen_height_ |-> screen_height_,
     eglInitialized |-> eglInitialized, eglSurfaces |-> eglSurfaces,
     eglContexts |-> eglContexts,
     glDebugMessageCallback |-> glDebugMessageCallback, faults |-> faults,
     calls |-> <<>>, thrown |-> FALSE, result |-> "void"]

Call(s, fn, arg, res) ==
    [s EXCEPT !.calls = Append(@, [fn |-> fn, arg |-> arg, res |-> res])]

\* LOG_ERROR_AND_THROW
Throw(s) == [s EXCEPT !.thrown = TRUE, !.result = "threw"]

Return(s, r) == [s EXCEPT !.result = r]

Res(ok) == IF ok THEN "ok" ELSE "fail"

Min2(a, b) == IF a < b THEN a ELSE b
Max2(a, b) == IF a > b THEN a ELSE b

FreeHandle(live, max) ==
    IF \E h \in 1..max : h \notin live
    THEN CHOOSE h \in 1..max : h \notin live /\ \A g \in 1..max : g \notin live => h <= g
    ELSE 0

(***************************************************************************)
(* EGL calls: the answers the platform can give, each with the platform    *)
(* state after it.  An answer is [v |-> value returned, s |-> state].      *)
(***************************************************************************)
\* The platform refuses a call it could serve (the answer `bad`), or serves
\* it; it refuses at most MaxFaults calls in a run.
Answers(s, possible, good, bad) ==
    IF ~possible THEN {[v |-> bad, s |-> s]}
    ELSE {[v |-> good, s |-> s]}
         \cup (IF s.faults < MaxFaults
               THEN {[v |-> bad, s |-> [s EXCEPT !.faults = @ + 1]]}
               ELSE {})

\* eglGetDisplay(EGL_DEFAULT_DISPLAY)
eglGetDisplay(s) == Answers(s, TRUE, DefaultDisplay, EGL_NO_DISPLAY)

\* eglInitialize(display_, 0, 0)
eglInitialize(s) ==
    {[v |-> a.v, s |-> [a.s EXCEPT !.eglInitialized = @ \/ a.v]] :
        a \in Answers(s, s.display_ # EGL_NO_DISPLAY, TRUE, FALSE)}

\* eglChooseConfig(display_, attribs, &config_, 1, &num_configs) asking for
\* `depth` bits: "fail" (EGL_FALSE), "none" (no match), or the match.  A
\* platform without a 24-bit configuration is no failure of the platform.
eglChooseConfig(s, depth) ==
    IF ~s.eglInitialized THEN {[v |-> "fail", s |-> s]}
    ELSE Answers(s, TRUE, IF depth = 24 THEN Cfg24 ELSE Cfg16, "fail")
         \cup (IF depth = 24 THEN {[v |-> "none", s |-> s]}
               ELSE Answers(s, TRUE, Cfg16, "none"))

\* eglCreateWindowSurface(display_, config_, window_, NULL): the new handle,
\* or EGL_NO_SURFACE.
eglCreateWindowSurface(s) ==
    {[v |-> a.v, s |-> [a.s EXCEPT !.eglSurfaces = @ \cup ({a.v} \ {EGL_NO_SURFACE})]] :
        a \in Answers(s,
                      /\ s.display_ # EGL_NO_DISPLAY /\ s.eglInitialized
                      /\ s.config_ \in {Cfg24, Cfg16} /\ s.window_ # NullWindow
                      /\ FreeHandle(s.eglSurfaces, MaxSurfaces) # 0,
                      FreeHandle(s.eglSurfaces, MaxSurfaces), EGL_NO_SURFACE)}

\* The oldest-to-newest support of the platform: the index into es_versions
\* from which on eglCreateContext succeeds (a platform that creates a
\* context of one version creates the older ones too); Len + 1 when it
\* creates none, which is a failure of the platform.
eglContextSupport(s) ==
    {[v |-> i, s |-> s] : i \in 1..Len(es_versions)}
    \cup Answers(s, TRUE, 1, Len(es_versions) + 1)

\* eglCreateContext(display_, config_, NULL, attribs) for candidate i.
eglCreateContext(s, i, from) ==
    IF i >= from /\ s.display_ # EGL_NO_DISPLAY /\ s.eglInitialized
            /\ s.config_ \in {Cfg24, Cfg16}
    THEN FreeHandle(s.eglContexts, MaxContexts)
    ELSE EGL_NO_CONTEXT

\* Whether eglMakeCurrent(display_, surface_, surface_, context_) can succeed.
\* On EGL_NO_DISPLAY only the release of the current context (no surface, no
\* context) can, on implementations that allow it.
CanMakeCurrent(s) ==
    IF s.display_ = EGL_NO_DISPLAY
    THEN s.surface_ = EGL_NO_SURFACE /\ s.context_ = EGL_NO_CONTEXT
    ELSE /\ s.eglInitialized
         /\ s.context_ = EGL_NO_CONTEXT => s.surface_ = EGL_NO_SURFACE
         /\ s.context_ # EGL_NO_CONTEXT => s.context_ \in s.eglContexts
         /\ s.surface_ # EGL_NO_SURFACE => s.surface_ \in s.eglSurfaces

\* eglGetError() after an eglMakeCurrent that cannot succeed.
MakeCurrentError(s) ==
    IF s.display_ = EGL_NO_DISPLAY THEN "EGL_BAD_DISPLAY"
    ELSE IF ~s.eglInitialized THEN "EGL_NOT_INITIALIZED"
    ELSE "EGL_BAD_MATCH"

\* eglMakeCurrent(display_, surface_, surface_, context_): "EGL_SUCCESS", or
\* the error eglGetError() reports after EGL_FALSE.
eglMakeCurrent(s) ==
    IF CanMakeCurrent(s) /\ s.display_ # EGL_NO_DISPLAY
    THEN Answers(s, TRUE, "EGL_SUCCESS", "EGL_CONTEXT_LOST")
         \cup Answers(s, TRUE, "EGL_SUCCESS", "EGL_BAD_SURFACE")
    ELSE IF CanMakeCurrent(s)
    THEN {[v |-> "EGL_SUCCESS", s |-> s], [v |-> "EGL_BAD_DISPLAY", s |-> s]}
    ELSE {[v |-> MakeCurrentError(s), s |-> s]}

\* eglQuerySurface(display_, surface_, EGL_WIDTH / EGL_HEIGHT, &out) succeeds.
eglQuerySurfaceOK(s) ==
    /\ s.display_ # EGL_NO_DISPLAY
    /\ s.eglInitialized
    /\ s.surface_ # EGL_NO_SURFACE
    /\ s.surface_ \in s.eglSurfaces

\* eglDestroySurface / eglDestroyContext(display_, h): the live handles left.
\* The call fails, and releases nothing, on a display that is not initialised.
eglDestroy(s, live, h) ==
    IF s.display_ # EGL_NO_DISPLAY /\ s.eglInitialized THEN live \ {h} ELSE live

\* eglSwapBuffers(display_, surface_): "EGL_SUCCESS" or eglGetError().
eglSwapBuffers(s) ==
    IF s.display_ = EGL_NO_DISPLAY THEN {[v |-> "EGL_BAD_DISPLAY", s |-> s]}
    ELSE IF ~s.eglInitialized THEN {[v |-> "EGL_NOT_INITIALIZED", s |-> s]}
    ELSE IF s.surface_ \notin s.eglSurfaces \/ s.context_ \notin s.eglContexts
    THEN {[v |-> "EGL_BAD_SURFACE", s |-> s]}
    ELSE UNION {Answers(s, TRUE, "EGL_SUCCESS", e) :
                  e \in {"EGL_BAD_SURFACE", "EGL_CONTEXT_LOST",
                         "EGL_BAD_CONTEXT", "EGL_BAD_ALLOC"}}

\* eglGetCurrentContext() != EGL_NO_CONTEXT: whether the host has made a
\* context of its own current.
eglGetCurrentContext(s) == Answers(s, TRUE, TRUE, FALSE)

\* Whether the driver exports glDebugMessageCallback: what LoadGLFunctions
\* (line 251) can leave in that function pointer.
HasDebugMessageCallback == BOOLEAN

(***************************************************************************)
(* GLContext::InitEGLSurface, in three stages.                             *)
(***************************************************************************)
\* Lines 169-189: create the window surface, cache its size and the swap
\* interval bounds of the configuration.
InitEGLSurface_Create(s) ==
    UNION {LET s1 == Call([a.s EXCEPT !.surface_ = a.v],
                          "eglCreateWindowSurface", a.v, Res(a.v # EGL_NO_SURFACE))
           IN IF s1.surface_ = EGL_NO_SURFACE
              THEN {Throw(s1)}
              ELSE {Return([s1 EXCEPT !.screen_width_ = WindowSize[1],
                                      !.screen_height_ = WindowSize[2],
                                      !.min_swap_interval_ = SwapBoundsOf(s1.config_)[1],
                                      !.max_swap_interval_ = SwapBoundsOf(s1.config_)[2]],
                           "true")}
           : a \in eglCreateWindowSurface(s)}

\* Lines 115-167: choose the configuration, 24-bit depth first, then 16-bit.
InitEGLSurface_Config(s) ==
    UNION {LET s1 == Call([a.s EXCEPT !.config_ = IF a.v = Cfg24 THEN a.v ELSE @],
                          "eglChooseConfig", 24, a.v)
           IN IF a.v = "fail" THEN {Throw(s1)}
              ELSE IF a.v = Cfg24 THEN InitEGLSurface_Create(s1)
              ELSE UNION {LET s2 == Call([b.s EXCEPT !.config_ =
                                                     IF b.v = Cfg16 THEN b.v ELSE @],
                                         "eglChooseConfig", 16, b.v)
                          IN IF b.v = Cfg16 THEN InitEGLSurface_Create(s2)
                             ELSE {Throw(s2)}
                          : b \in eglChooseConfig(s1, 16)}
           : a \in eglChooseConfig(s, 24)}

\* Lines 96-190.
InitEGLSurface(s) ==
    UNION {LET s1 == Call([a.s EXCEPT !.display_ = a.v],
                          "eglGetDisplay", a.v, Res(a.v # EGL_NO_DISPLAY))
           IN IF s1.display_ = EGL_NO_DISPLAY
              THEN {Throw(s1)}
              ELSE UNION {LET s2 == Call(b.s, "eglInitialize", s1.display_, Res(b.v))
                          IN IF ~b.v THEN {Throw(s2)} ELSE InitEGLSurface_Config(s2)
                          : b \in eglInitialize(s1)}
           : a \in eglGetDisplay(s)}

(***************************************************************************)
(* GLContext::InitEGLContext.                                              *)
(***************************************************************************)
\* The loop of lines 195-208, from index i on, on a platform that creates
\* the candidates from index `from` on.
\* The loop without the `context_ == EGL_NO_CONTEXT` half of its condition:
\* it goes on to the lower candidates after one was created.
RECURSIVE NegotiateFrom_NoStop(_, _, _)
NegotiateFrom_NoStop(s, i, from) ==
    IF i > Len(es_versions)
    THEN s
    ELSE LET v  == es_versions[i]
             h  == eglCreateContext(s, i, from)
             s1 == Call([s EXCEPT !.major_version_ = v[1],
                                  !.minor_version_ = v[2],
                                  !.context_ = h,
                                  !.eglContexts = @ \cup ({h} \ {EGL_NO_CONTEXT})],
                        "eglCreateContext", VersionCode(v), Res(h # EGL_NO_CONTEXT))
         IN NegotiateFrom_NoStop(s1, i + 1, from)

RECURSIVE NegotiateFrom(_, _, _)
NegotiateFrom(s, i, from) ==
    IF i > Len(es_versions) \/ s.context_ # EGL_NO_CONTEXT
    THEN s
    ELSE LET v  == es_versions[i]
             h  == eglCreateContext(s, i, from)
             s1 == Call([s EXCEPT !.major_version_ = v[1],
                                  !.minor_version_ = v[2],
                                  !.context_ = h,
                                  !.eglContexts = @ \cup ({h} \ {EGL_NO_CONTEXT})],
                        "eglCreateContext", VersionCode(v), Res(h # EGL_NO_CONTEXT))
         IN NegotiateFrom(s1, i + 1, from)

\* Lines 210-222: after the loop.
InitEGLContext_Current(s) ==
    IF s.context_ = EGL_NO_CONTEXT
    THEN {Throw(s)}
    ELSE {LET s1 == Call(a.s, "eglMakeCurrent", s.context_, Res(a.v = "EGL_SUCCESS"))
          IN IF a.v # "EGL_SUCCESS" THEN Throw(s1)
             ELSE Return([s1 EXCEPT !.context_valid_ = TRUE], "true")
          : a \in eglMakeCurrent(s)}

\* Lines 192-223.
InitEGLContext(s) ==
    UNION {InitEGLContext_Current(NegotiateFrom(a.s, 1, a.v)) :
             a \in IF s.context_ = EGL_NO_CONTEXT /\ eglCreateContext(s, 1, 1) # EGL_NO_CONTEXT
                   THEN eglContextSupport(s)
                   ELSE {[v |-> 1, s |-> s]}}

\* Lines 276-277 and 432-433: InitEGLSurface(); InitEGLContext(); the second
\* runs only when the first returned.
InitEGLSurfaceAndContext(s) ==
    UNION {IF t.thrown THEN {t} ELSE InitEGLContext(t) : t \in InitEGLSurface(s)}

(***************************************************************************)
(* GLContext::Terminate, lines 359-380.                                    *)
(***************************************************************************)
\* Terminate without the `display_ = EGL_NO_DISPLAY` of line 376.
Terminate_KeepsDisplay(s) ==
    LET s1 == IF s.display_ = EGL_NO_DISPLAY THEN s
              ELSE Call(s, "eglMakeCurrent", EGL_NO_CONTEXT, "release")
        s4 == IF s.display_ # EGL_NO_DISPLAY
              THEN Call([s1 EXCEPT !.eglInitialized = FALSE,
                                   !.eglSurfaces = {}, !.eglContexts = {}],
                        "eglTerminate", s.display_, "ok")
              ELSE s1
    IN [s4 EXCEPT !.context_ = EGL_NO_CONTEXT,
                  !.surface_ = EGL_NO_SURFACE,
                  !.context_valid_ = FALSE]

Terminate(s) ==
    LET s1 == IF s.display_ = EGL_NO_DISPLAY THEN s
              ELSE Call(s, "eglMakeCurrent", EGL_NO_CONTEXT, "release")
        s2 == IF s.display_ # EGL_NO_DISPLAY /\ s.context_ # EGL_NO_CONTEXT
              THEN Call([s1 EXCEPT !.eglContexts = eglDestroy(s, @, s.context_)],
                        "eglDestroyContext", s.context_, Res(s.eglInitialized))
              ELSE s1
        s3 == IF s.display_ # EGL_NO_DISPLAY /\ s.surface_ # EGL_NO_SURFACE
              THEN Call([s2 EXCEPT !.eglSurfaces = eglDestroy(s, @, s.surface_)],
                        "eglDestroySurface", s.surface_, Res(s.eglInitialized))
              ELSE s2
        s4 == IF s.display_ # EGL_NO_DISPLAY
              THEN Call([s3 EXCEPT !.eglInitialized = FALSE,
                                   !.eglSurfaces = {}, !.eglContexts = {}],
                        "eglTerminate", s.display_, "ok")
              ELSE s3
    IN [s4 EXCEPT !.display_ = EGL_NO_DISPLAY,
                  !.context_ = EGL_NO_CONTEXT,
                  !.surface_ = EGL_NO_SURFACE,
                  !.context_valid_ = FALSE]

(***************************************************************************)
(* Attach, GLES initialisation, Init.                                      *)
(***************************************************************************)
\* Lines 225-234.
AttachToCurrentEGLContext(s) ==
    {IF ~a.v
     THEN Throw(Call(a.s, "eglGetCurrentContext", EGL_NO_CONTEXT, "fail"))
     ELSE [Call(a.s, "eglGetCurrentContext", EGL_NO_CONTEXT, "ok")
             EXCEPT !.context_valid_ = TRUE,
                    !.major_version_ = HostContextVersion[1],
                    !.minor_version_ = HostContextVersion[2]]
     : a \in eglGetCurrentContext(s)}

\* Lines 241-263.
InitGLES(s) ==
    IF s.gles_initialized_
    THEN s
    ELSE [Call(Call(Call(s, "glGetString", 0, "ok"),
                    "LoadGLFunctions", 0, "ok"),
               "glEnable_FRAMEBUFFER_SRGB", 0, "ok")
            EXCEPT !.gles_initialized_ = TRUE]

\* Lines 283-295: what Init does once the context is there.  The function
\* pointers are loaded by the LoadGLFunctions of InitGLES and stay as loaded.
Init_Finish(s) ==
    {LET s1 == [InitGLES(s) EXCEPT !.glDebugMessageCallback = d]
         s2 == IF s1.glDebugMessageCallback
               THEN Call(Call(s1, "glEnable_DEBUG_OUTPUT_SYNCHRONOUS", 0, "ok"),
                         "glDebugMessageCallback", 0, "ok")
               ELSE s1
     IN Return([s2 EXCEPT !.egl_context_initialized_ = TRUE], "true")
     : d \in IF s.gles_initialized_
             THEN {s.glDebugMessageCallback}
             ELSE HasDebugMessageCallback}

\* Lines 265-296.
Init(s, window) ==
    IF s.egl_context_initialized_
    THEN {Return(s, "true")}
    ELSE UNION {IF t.thrown THEN {t} ELSE Init_Finish(t) :
                  t \in IF window # NullWindow
                        THEN InitEGLSurfaceAndContext([s EXCEPT !.window_ = window])
                        ELSE AttachToCurrentEGLContext([s EXCEPT !.window_ = window])}

\* Lines 458-463: the (MajorVersion, MinorVersion) written to the descriptor.
FillDeviceCaps(s) == <<s.major_version_, s.minor_version_>>

(***************************************************************************)
(* Present, Suspend, Resume, Invalidate.                                   *)
(***************************************************************************)
\* An error handler that takes every error of eglSwapBuffers for a lost
\* context.
SwapBuffers_Failed_AsContextLoss(s, err) ==
    {IF c.thrown THEN c ELSE Return(c, "void") :
       c \in InitEGLContext(Terminate([s EXCEPT !.context_valid_ = FALSE]))}

\* An error handler that recreates the surface on every error that is not a
\* lost context.
SwapBuffers_Failed_RecreatesSurface(s, err) ==
    IF err \in {"EGL_CONTEXT_LOST", "EGL_BAD_CONTEXT"}
    THEN {IF c.thrown THEN c ELSE Return(c, "void") :
            c \in InitEGLContext(Terminate([s EXCEPT !.context_valid_ = FALSE]))}
    ELSE {[t EXCEPT !.thrown = FALSE, !.result = "void"] : t \in InitEGLSurface(s)}

\* Lines 331-355: after eglSwapBuffers answered err.
SwapBuffers_Failed(s, err) ==
    IF err = "EGL_BAD_SURFACE"
    THEN {[t EXCEPT !.thrown = FALSE, !.result = "void"] : t \in InitEGLSurface(s)}
    ELSE IF err \in {"EGL_CONTEXT_LOST", "EGL_BAD_CONTEXT"}
    THEN {IF c.thrown THEN c ELSE Return(c, "void") :
            c \in InitEGLContext(Terminate([s EXCEPT !.context_valid_ = FALSE]))}
    ELSE {s}

\* Lines 326-327: the interval passed to eglSwapInterval.  The bounds are
\* read before anything has written them when no InitEGLSurface has completed
\* (the initialiser list does not set them): the value is then any one.
ClampedIntervals(s, SwapInterval) ==
    IF s.min_swap_interval_ = Indeterminate \/ s.max_swap_interval_ = Indeterminate
    THEN SwapRequests
    ELSE {Min2(Max2(SwapInterval, s.min_swap_interval_), s.max_swap_interval_)}

\* Lines 318-357.
SwapBuffers(s, SwapInterval) ==
    IF s.surface_ = EGL_NO_SURFACE
    THEN {s}
    ELSE UNION {LET s2 == Call(a.s, "eglSwapBuffers", s.surface_, a.v)
                IN IF a.v = "EGL_SUCCESS" THEN {s2} ELSE SwapBuffers_Failed(s2, a.v)
                : a \in UNION {eglSwapBuffers(Call(s, "eglSwapInterval", applied, "ok")) :
                                 applied \in ClampedIntervals(s, SwapInterval)}}

\* Lines 383-397.  A failed query leaves the locals at 0.
UpdateScreenSize(s) ==
    LET new == IF eglQuerySurfaceOK(s) THEN WindowSize ELSE <<0, 0>>
        s1  == Call(s, "eglQuerySurface", s.surface_, Res(eglQuerySurfaceOK(s)))
    IN IF new[1] # s.screen_width_ \/ new[2] # s.screen_height_
       THEN [s1 EXCEPT !.screen_width_ = new[1], !.screen_height_ = new[2]]
       ELSE s1

\* The recovery of Resume with the branch of lines 421-425 taken for every
\* error: the context alone is set up again.
Resume_MakeCurrent_ContextOnly(s) ==
    UNION {LET s1 == Call(a.s, "eglMakeCurrent", s.context_, a.v)
           IN IF a.v = "EGL_SUCCESS" THEN {Return(s1, "EGL_SUCCESS")}
              ELSE {IF c.thrown THEN c ELSE Return(c, a.v) : c \in InitEGLContext(s1)}
           : a \in eglMakeCurrent(s)}

\* Lines 414-435: after the surface of Resume is there.
Resume_MakeCurrent(s) ==
    UNION {LET s1 == Call(a.s, "eglMakeCurrent", s.context_, a.v)
               err == a.v
           IN IF a.v = "EGL_SUCCESS" THEN {Return(s1, "EGL_SUCCESS")}
              ELSE IF err = "EGL_CONTEXT_LOST"
              THEN {IF c.thrown THEN c ELSE Return(c, err) : c \in InitEGLContext(s1)}
              ELSE {IF c.thrown THEN c ELSE Return(c, err) :
                      c \in InitEGLSurfaceAndContext(Terminate(s1))}
           : a \in eglMakeCurrent(s)}

\* Lines 409-436: Resume on an initialised manager.
Resume_Initialized(s, window) ==
    UNION {Resume_MakeCurrent(
               UpdateScreenSize(
                   Call([a.s EXCEPT !.surface_ = a.v],
                        "eglCreateWindowSurface", a.v, Res(a.v # EGL_NO_SURFACE))))
           : a \in eglCreateWindowSurface([s EXCEPT !.window_ = window])}

\* Resume without the test of egl_context_initialized_ (lines 401-405).
Resume_NoInitTest(s, window) == Resume_Initialized(s, window)

\* Lines 399-436.
Resume(s, window) ==
    IF s.egl_context_initialized_ = FALSE
    THEN {IF i.thrown THEN i ELSE Return(i, "EGL_SUCCESS") : i \in Init(s, window)}
    ELSE Resume_Initialized(s, window)

\* Suspend without the `surface_ = EGL_NO_SURFACE` of line 445.
Suspend_KeepsHandle(s) ==
    IF s.surface_ # EGL_NO_SURFACE
    THEN Call([s EXCEPT !.eglSurfaces = eglDestroy(s, @, s.surface_)],
              "eglDestroySurface", s.surface_,
              Res(s.display_ # EGL_NO_DISPLAY /\ s.eglInitialized))
    ELSE s

\* A Suspend that releases everything, as Terminate does.
Suspend_ReleasesAll(s) == Terminate(s)

\* Lines 438-447.
Suspend(s) ==
    IF s.surface_ # EGL_NO_SURFACE
    THEN [Call([s EXCEPT !.eglSurfaces = eglDestroy(s, @, s.surface_)],
               "eglDestroySurface", s.surface_,
               Res(s.display_ # EGL_NO_DISPLAY /\ s.eglInitialized))
            EXCEPT !.surface_ = EGL_NO_SURFACE]
    ELSE s

\* Invalidate without the `egl_context_initialized_ = false` of line 454.
Invalidate_KeepsFlag(s) == Return(Terminate(s), "true")

\* Lines 449-456.
Invalidate(s) ==
    Return([Terminate(s) EXCEPT !.egl_context_initialized_ = FALSE], "true")

(***************************************************************************)
(* Construction.                                                           *)
(***************************************************************************)
\* The members after the constructor's initialiser list, lines 298-305, on a
\* platform that holds no surface and no context of this process.
Blank ==
    [display_ |-> EGL_NO_DISPLAY, config_ |-> IndeterminateConfig,
     surface_ |-> EGL_NO_SURFACE, context_ |-> EGL_NO_CONTEXT,
     window_ |-> NullWindow, context_valid_ |-> FALSE,
     egl_context_initialized_ |-> FALSE, gles_initialized_ |-> FALSE,
     major_version_ |-> 0, minor_version_ |-> 0,
     min_swap_interval_ |-> Indeterminate, max_swap_interval_ |-> Indeterminate,
     screen_width_ |-> Indeterminate, screen_height_ |-> Indeterminate,
     eglInitialized |-> FALSE, eglSurfaces |-> {}, eglContexts |-> {},
     glDebugMessageCallback |-> FALSE,
     faults |-> 0, calls |-> <<>>, thrown |-> FALSE, result |-> "void"]

\* Lines 298-311: the constructor body.
GLContext(window) == Init(Blank, window)

\* A manager exists only when its constructor returned: a constructor that
\* throws leaves no object to call.
ModelInit ==
    \E w \in Windows :
      \E r \in GLContext(w) :
        /\ ~r.thrown
        /\ display_ = r.display_ /\ config_ = r.config_
        /\ surface_ = r.surface_ /\ context_ = r.context_
        /\ window_ = r.window_ /\ context_valid_ = r.context_valid_
        /\ egl_context_initialized_ = r.egl_context_initialized_
        /\ gles_initialized_ = r.gles_initialized_
        /\ major_version_ = r.major_version_ /\ minor_version_ = r.minor_version_
        /\ min_swap_interval_ = r.min_swap_interval_
        /\ max_swap_interval_ = r.max_swap_interval_
        /\ screen_width_ = r.screen_width_ /\ screen_height_ = r.screen_height_
        /\ eglInitialized = r.eglInitialized
        /\ eglSurfaces = r.eglSurfaces /\ eglContexts = r.eglContexts
        /\ glDebugMessageCallback = r.glDebugMessageCallback
        /\ faults = r.faults
        /\ calls = r.calls /\ result = r.result
        /\ lastOp = "GLContext"
        /\ lastArg = w
        /\ prevOp = "other"

(***************************************************************************)
(* One action per operation of the manager.                                *)
(***************************************************************************)
\* lastOp, lastArg, result and calls record the last operation: its name,
\* its argument (0 when it takes none), what it returned ("threw" when it
\* raised an error) and the platform calls it made, in order.  prevOp is the
\* operation before it when that was Suspend, Terminate or Invalidate.
Commit(op, arg, r) ==
    /\ display_' = r.display_ /\ config_' = r.config_
    /\ surface_' = r.surface_ /\ context_' = r.context_
    /\ window_' = r.window_ /\ context_valid_' = r.context_valid_
    /\ egl_context_initialized_' = r.egl_context_initialized_
    /\ gles_initialized_' = r.gles_initialized_
    /\ major_version_' = r.major_version_ /\ minor_version_' = r.minor_version_
    /\ min_swap_interval_' = r.min_swap_interval_
    /\ max_swap_interval_' = r.max_swap_interval_
    /\ screen_width_' = r.screen_width_ /\ screen_height_' = r.screen_height_
    /\ eglInitialized' = r.eglInitialized
    /\ eglSurfaces' = r.eglSurfaces /\ eglContexts' = r.eglContexts
    /\ glDebugMessageCallback' = r.glDebugMessageCallback
    /\ faults' = r.faults
    /\ calls' = r.calls /\ result' = r.result
    /\ lastOp' = op
    /\ lastArg' = arg
    /\ prevOp' = IF lastOp \in {"Suspend", "Terminate", "Invalidate"}
                 THEN lastOp ELSE "other"

DoInit == \E w \in Windows : \E r \in Init(State, w) : Commit("Init", w, r)

DoSwapBuffers ==
    \E SwapInterval \in SwapRequests :
      \E r \in SwapBuffers(State, SwapInterval) : Commit("SwapBuffers", SwapInterval, r)

DoSuspend == Commit("Suspend", 0, Suspend(State))

DoResume == \E w \in Windows : \E r \in Resume(State, w) : Commit("Resume", w, r)

DoInvalidate == Commit("Invalidate", 0, Invalidate(State))

DoTerminate == Commit("Terminate", 0, Terminate(State))

DoUpdateScreenSize == Commit("UpdateScreenSize", 0, UpdateScreenSize(State))

Next ==
    \/ DoInit
    \/ DoSwapBuffers
    \/ DoSuspend
    \/ DoResume
    \/ DoInvalidate
    \/ DoTerminate
    \/ DoUpdateScreenSize

Spec == ModelInit /\ [][Next]_vars


(***************************************************************************)
(* Reading the record of the last operation.                               *)
(***************************************************************************)
HasCall(log, fn) == \E i \in DOMAIN log : log[i].fn = fn

HasCallRes(log, fn, res) == \E i \in DOMAIN log : log[i].fn = fn /\ log[i].res = res

CallsTo(log, fn) == SelectSeq(log, LAMBDA c : c.fn = fn)

\* eglSwapBuffers reported, in this log, that the context is lost.
SwapLostContext(log) ==
    \/ HasCallRes(log, "eglSwapBuffers", "EGL_CONTEXT_LOST")
    \/ HasCallRes(log, "eglSwapBuffers", "EGL_BAD_CONTEXT")

\* The manager has a display, a surface and a valid context.
Rendering ==
    /\ display_ # EGL_NO_DISPLAY /\ surface_ # EGL_NO_SURFACE
    /\ context_ # EGL_NO_CONTEXT /\ context_valid_

\* The manager has no surface and no context, and knows it.
Released ==
    surface_ = EGL_NO_SURFACE /\ context_ = EGL_NO_CONTEXT /\ ~context_valid_

(***************************************************************************)
(* Properties.                                                             *)
(***************************************************************************)

\* C1: when Present is told by the swap that the context is lost (or bad),
\* it returns with a context created anew by the version negotiation: the
\* context handle is set and the context-valid flag is true again.
C1_PresentRecoversContext ==
    (lastOp = "SwapBuffers" /\ SwapLostContext(calls))
        => /\ result # "threw"
           /\ HasCallRes(calls, "eglCreateContext", "ok")
           /\ context_ # EGL_NO_CONTEXT
           /\ context_valid_

\* C2: when a Resume with a window has created its surface, its make-current
\* reports a lost context and it returns, a new context was created by the version negotiation, the surface
\* this Resume created is the manager's surface, and the display was not
\* torn down.
C2_ResumeRenegotiatesContext ==
    (/\ lastOp = "Resume" /\ lastArg = AppWindow
     /\ HasCallRes(calls, "eglCreateWindowSurface", "ok")
     /\ HasCallRes(calls, "eglMakeCurrent", "EGL_CONTEXT_LOST")
     /\ result # "threw")
        => /\ HasCallRes(calls, "eglCreateContext", "ok")
           /\ ~HasCall(calls, "eglTerminate")
           /\ surface_ = CallsTo(calls, "eglCreateWindowSurface")[1].arg

\* The swap of the last Present, or the make-current of the last Resume,
\* reported a lost surface or context.
LossDetected ==
    \/ /\ lastOp = "SwapBuffers"
       /\ \/ SwapLostContext(calls)
          \/ HasCallRes(calls, "eglSwapBuffers", "EGL_BAD_SURFACE")
    \/ /\ lastOp = "Resume"
       /\ \/ HasCallRes(calls, "eglMakeCurrent", "EGL_CONTEXT_LOST")
          \/ HasCallRes(calls, "eglMakeCurrent", "EGL_BAD_SURFACE")

\* C3: a lost surface or context found during Present or Resume is never
\* raised to the caller, and the operation leaves the manager either
\* rendering again or with neither surface nor context (handles at their
\* sentinels, validity flag false), never in between.
C3_LossNeverRaised ==
    LossDetected => (result # "threw" /\ (Rendering \/ Released))

\* C4, as the specification has it: after a Present whose swap reported a
\* bad surface, the surface handle is set, and the context handle and the
\* context-valid flag are what they were.
C4_SurfaceAlwaysRecreated ==
    [][(lastOp' = "SwapBuffers" /\ HasCallRes(calls', "eglSwapBuffers", "EGL_BAD_SURFACE"))
         => /\ surface_' # EGL_NO_SURFACE
            /\ context_' = context_ /\ context_valid_' = context_valid_]_vars

\* C4, amended: after a Present whose swap reported a bad surface, Present
\* has returned without raising, the context handle and the context-valid
\* flag are what they were, and the surface handle is set unless the
\* creation of the new window surface failed.
C4_ContextUntouchedByBadSurface ==
    [][(lastOp' = "SwapBuffers" /\ HasCallRes(calls', "eglSwapBuffers", "EGL_BAD_SURFACE"))
         => /\ result' # "threw"
            /\ context_' = context_ /\ context_valid_' = context_valid_
            /\ ~HasCall(calls', "eglCreateContext")
            /\ (surface_' = EGL_NO_SURFACE
                  => HasCallRes(calls', "eglCreateWindowSurface", "fail"))]_vars

\* A Present that met a bad surface and made a new one, the context in place.
C4_Witness ==
    /\ lastOp = "SwapBuffers"
    /\ HasCallRes(calls, "eglSwapBuffers", "EGL_BAD_SURFACE")
    /\ HasCallRes(calls, "eglCreateWindowSurface", "ok")
    /\ surface_ # EGL_NO_SURFACE /\ context_ # EGL_NO_CONTEXT /\ context_valid_

\* C5: a set context handle implies a set display handle; a set surface
\* handle implies a set display handle and a config chosen for it.
C5_HandlesImplyDisplay ==
    /\ context_ # EGL_NO_CONTEXT => display_ # EGL_NO_DISPLAY
    /\ surface_ # EGL_NO_SURFACE
         => (display_ # EGL_NO_DISPLAY /\ config_ \in {Cfg24, Cfg16})

\* C6: a Present called while the display, the surface or the context is
\* missing, or the context is not valid, sets no swap interval, swaps
\* nothing and raises nothing.
C6_PresentNeedsAllHandles ==
    [][(/\ lastOp' = "SwapBuffers"
        /\ \/ display_ = EGL_NO_DISPLAY \/ surface_ = EGL_NO_SURFACE
           \/ context_ = EGL_NO_CONTEXT \/ ~context_valid_)
         => /\ ~HasCall(calls', "eglSwapInterval")
            /\ ~HasCall(calls', "eglSwapBuffers")
            /\ result' # "threw"]_vars

\* C7: after a Present that handled a lost context, a Resume or an Init with
\* a window, on a platform that refuses nothing, leaves the manager with a
\* display, a surface and a valid context.
C7_RebuiltAfterContextLoss ==
    [][(/\ lastOp = "SwapBuffers" /\ SwapLostContext(calls)
        /\ lastOp' \in {"Init", "Resume"} /\ lastArg' = AppWindow
        /\ faults' = faults)
         => /\ result' # "threw"
            /\ display_' # EGL_NO_DISPLAY /\ surface_' # EGL_NO_SURFACE
            /\ context_' # EGL_NO_CONTEXT /\ context_valid_']_vars

\* C8: a Present that follows a Suspend does nothing: it calls nothing of
\* the platform, changes nothing of the manager and raises nothing.
C8_PresentAfterSuspendIsNoOp ==
    [][(lastOp = "Suspend" /\ lastOp' = "SwapBuffers")
         => /\ calls' = <<>>
            /\ result' = "void"
            /\ UNCHANGED mgr
            /\ UNCHANGED <<eglInitialized, eglSurfaces, eglContexts>>]_vars

\* A Present made right after a Suspend that had a surface to release.
C8_Witness ==
    /\ lastOp = "SwapBuffers" /\ prevOp = "Suspend"
    /\ calls = <<>>
    /\ surface_ = EGL_NO_SURFACE /\ context_ # EGL_NO_CONTEXT

\* C9: the context creations of one operation ask for 3.2, 3.1, 3.0 in
\* that order and stop at the first that succeeds; the recorded version is
\* the one that succeeded; when all three fail the operation raises an error.
C9_NegotiationOrder ==
    LET attempts == CallsTo(calls, "eglCreateContext")
        n == Len(attempts)
    IN /\ n <= Len(es_versions)
       /\ \A i \in 1..n : attempts[i].arg = VersionCode(es_versions[i])
       /\ \A i \in 1..(n - 1) : attempts[i].res = "fail"
       /\ (n > 0 /\ attempts[n].res = "ok")
            => <<major_version_, minor_version_>> = es_versions[n]
       /\ (n > 0 /\ attempts[n].res = "fail")
            => (n = Len(es_versions) /\ result = "threw" /\ context_ = EGL_NO_CONTEXT)

\* A negotiation that was refused 3.2 and 3.1 and got 3.0.
C9_Witness ==
    LET attempts == CallsTo(calls, "eglCreateContext")
    IN /\ Len(attempts) = 3
       /\ attempts[1].res = "fail" /\ attempts[2].res = "fail"
       /\ attempts[3].res = "ok"
       /\ major_version_ = 3 /\ minor_version_ = 0
       /\ context_ # EGL_NO_CONTEXT

\* C10: Terminate raises nothing and leaves the display, surface and context
\* handles at their sentinels and the context-valid flag false; a Terminate
\* that follows a Terminate releases nothing.
C10_TerminateIdempotent ==
    [][lastOp' = "Terminate"
         => /\ result' # "threw"
            /\ display_' = EGL_NO_DISPLAY /\ surface_' = EGL_NO_SURFACE
            /\ context_' = EGL_NO_CONTEXT /\ ~context_valid_'
            /\ (lastOp = "Terminate" => calls' = <<>>)]_vars

\* A second Terminate in a row, which had nothing to release.
C10_Witness ==
    /\ lastOp = "Terminate" /\ prevOp = "Terminate"
    /\ calls = <<>>
    /\ display_ = EGL_NO_DISPLAY /\ ~context_valid_

\* C11: a Resume on a manager whose initialised flag is false does what
\* Init with the same window does from the same state: same platform calls,
\* same manager and platform state afterwards, an error raised exactly when
\* Init raises one; when it returns it returns EGL_SUCCESS, the manager is
\* initialised and the recorded version is not zero.
C11_ResumeUninitializedIsInit ==
    [][(lastOp' = "Resume" /\ ~egl_context_initialized_)
         => \E r \in Init(State, lastArg') :
              /\ Commit("Resume", lastArg',
                        IF r.thrown THEN r ELSE Return(r, "EGL_SUCCESS"))
              /\ ~r.thrown => /\ egl_context_initialized_'
                              /\ major_version_' # 0]_vars

\* A Resume with a window that ran the whole of Init and returned.
C11_Witness ==
    /\ lastOp = "Resume" /\ lastArg = AppWindow
    /\ result = "EGL_SUCCESS"
    /\ HasCall(calls, "eglGetDisplay") /\ HasCallRes(calls, "eglCreateContext", "ok")
    /\ egl_context_initialized_ /\ Rendering
    /\ major_version_ = 3

\* C12: re-creating the surface, in the recovery of a Present whose swap
\* reported a bad surface or in a Resume whose make-current succeeded or
\* reported a lost context (the Resumes that keep the display), selects no configuration again and leaves the configuration and the swap
\* interval bounds as they were.
C12_ConfigChosenOnce ==
    [][(\/ /\ lastOp' = "SwapBuffers"
           /\ HasCallRes(calls', "eglSwapBuffers", "EGL_BAD_SURFACE")
        \/ /\ lastOp' = "Resume" /\ egl_context_initialized_
           /\ \/ HasCallRes(calls', "eglMakeCurrent", "EGL_SUCCESS")
              \/ HasCallRes(calls', "eglMakeCurrent", "EGL_CONTEXT_LOST"))
         => /\ ~HasCall(calls', "eglChooseConfig")
            /\ config_' = config_
            /\ min_swap_interval_' = min_swap_interval_
            /\ max_swap_interval_' = max_swap_interval_]_vars

\* C13: the GPU-side global initialisation (driver version read, function
\* table load, sRGB framebuffer enable, synchronous debug output enable and
\* debug callback registration) is done once: an operation on a manager that
\* has done it does none of it again.
C13_GlobalInitOnce ==
    [][gles_initialized_
         => /\ ~HasCall(calls', "glGetString")
            /\ ~HasCall(calls', "LoadGLFunctions")
            /\ ~HasCall(calls', "glEnable_FRAMEBUFFER_SRGB")
            /\ ~HasCall(calls', "glEnable_DEBUG_OUTPUT_SYNCHRONOUS")
            /\ ~HasCall(calls', "glDebugMessageCallback")]_vars

\* The platform can still hand out a surface and a context.
PlatformHasRoom ==
    /\ FreeHandle(eglSurfaces, MaxSurfaces) # 0
    /\ FreeHandle(eglContexts, MaxContexts) # 0

\* C14: Invalidate returns true and leaves the display, surface and context
\* handles at their sentinels, the context-valid flag false and the
\* initialised flag false; an Init with a window that follows it, on a
\* platform that refuses nothing, acquires display and configuration, creates
\* the surface, negotiates the context, and ends with all three live, the
\* context valid and the initialised flag set.
C14_InvalidateThenInit ==
    [][/\ lastOp' = "Invalidate"
            => /\ result' = "true"
               /\ display_' = EGL_NO_DISPLAY /\ surface_' = EGL_NO_SURFACE
               /\ context_' = EGL_NO_CONTEXT /\ ~context_valid_'
               /\ ~egl_context_initialized_'
       /\ (/\ lastOp = "Invalidate" /\ lastOp' = "Init" /\ lastArg' = AppWindow
           /\ faults' = faults /\ PlatformHasRoom)
            => /\ result' = "true"
               /\ HasCallRes(calls', "eglGetDisplay", "ok")
               /\ HasCall(calls', "eglChooseConfig")
               /\ HasCallRes(calls', "eglCreateWindowSurface", "ok")
               /\ HasCallRes(calls', "eglCreateContext", "ok")
               /\ config_' \in {Cfg24, Cfg16}
               /\ display_' # EGL_NO_DISPLAY /\ surface_' # EGL_NO_SURFACE
               /\ context_' # EGL_NO_CONTEXT /\ context_valid_'
               /\ egl_context_initialized_']_vars

\* An Init with a window, right after an Invalidate, that rebuilt everything.
C14_Witness ==
    /\ lastOp = "Init" /\ prevOp = "Invalidate" /\ lastArg = AppWindow
    /\ result = "true"
    /\ HasCallRes(calls, "eglGetDisplay", "ok")
    /\ Rendering /\ egl_context_initialized_

\* What the make-current of a Resume on an initialised manager answered in
\* this log ("none" when there was none).
ResumeMakeCurrent(log) ==
    LET m == CallsTo(log, "eglMakeCurrent")
    IN IF m = <<>> THEN "none" ELSE m[1].res

\* C15: a Resume with a window on an initialised manager whose make-current
\* fails with an error other than a lost context terminates the display and
\* builds display, surface and context again: when the platform refuses
\* nothing else, the Resume returns that error and leaves a display, a
\* surface and a valid context, all created by this call.
C15_ResumeFullRecovery ==
    [][(/\ lastOp' = "Resume" /\ lastArg' = AppWindow
        /\ egl_context_initialized_
        /\ ResumeMakeCurrent(calls') \in {"EGL_BAD_SURFACE", "EGL_BAD_DISPLAY",
                                          "EGL_NOT_INITIALIZED", "EGL_BAD_MATCH"}
        /\ faults' = faults + (IF ResumeMakeCurrent(calls') = "EGL_BAD_SURFACE"
                               THEN 1 ELSE 0)
        /\ (display_ # EGL_NO_DISPLAY \/ PlatformHasRoom))
         => /\ result' = ResumeMakeCurrent(calls')
            /\ display_ # EGL_NO_DISPLAY => HasCall(calls', "eglTerminate")
            /\ HasCallRes(calls', "eglGetDisplay", "ok")
            /\ \E i \in DOMAIN calls' :
                 /\ calls'[i].fn = "eglCreateWindowSurface"
                 /\ i > 1 /\ calls'[i].arg = surface_'
            /\ HasCallRes(calls', "eglCreateContext", "ok")
            /\ display_' # EGL_NO_DISPLAY /\ surface_' # EGL_NO_SURFACE
            /\ context_' # EGL_NO_CONTEXT /\ context_valid_'
            /\ surface_' \in eglSurfaces' /\ context_' \in eglContexts']_vars

\* A Resume whose make-current reported a bad surface and which rebuilt
\* display, surface and context.
C15_Witness ==
    /\ lastOp = "Resume" /\ lastArg = AppWindow
    /\ result = "EGL_BAD_SURFACE"
    /\ HasCall(calls, "eglTerminate")
    /\ HasCallRes(calls, "eglCreateContext", "ok")
    /\ Rendering

C17_SuspendReleasesSurfaceOnly ==
    [][lastOp' = "Suspend"
         => /\ result' # "threw"
            /\ surface_ # EGL_NO_SURFACE
                 => /\ surface_' = EGL_NO_SURFACE
                    /\ Len(calls') = 1
                    /\ calls'[1].fn = "eglDestroySurface" /\ calls'[1].arg = surface_
                    /\ (display_ # EGL_NO_DISPLAY /\ eglInitialized)
                         => eglSurfaces' = eglSurfaces \ {surface_}
                    /\ UNCHANGED <<display_, config_, context_, context_valid_,
                                   egl_context_initialized_, gles_initialized_,
                                   major_version_, minor_version_,
                                   min_swap_interval_, max_swap_interval_,
                                   eglInitialized, eglContexts>>
            /\ surface_ = EGL_NO_SURFACE
                 => /\ calls' = <<>>
                    /\ UNCHANGED mgr
                    /\ UNCHANGED <<eglInitialized, eglSurfaces, eglContexts>>]_vars

\* A Suspend that destroyed the surface of a rendering manager.
C17_Witness ==
    /\ lastOp = "Suspend"
    /\ HasCallRes(calls, "eglDestroySurface", "ok")
    /\ surface_ = EGL_NO_SURFACE
    /\ display_ # EGL_NO_DISPLAY /\ context_ # EGL_NO_CONTEXT /\ context_valid_
    /\ context_ \in eglContexts

\* What eglSwapBuffers answered in this log ("none" when it was not called).
SwapAnswer(log) ==
    LET m == CallsTo(log, "eglSwapBuffers")
    IN IF m = <<>> THEN "none" ELSE m[1].res

\* C18: a Present whose swap fails with an error that is neither a bad
\* surface, a lost context nor a bad context returns without raising, calls
\* nothing more of the platform, and changes nothing of the manager.
C18_OtherSwapErrorsIgnored ==
    [][(lastOp' = "SwapBuffers"
        /\ SwapAnswer(calls') \in {"EGL_BAD_ALLOC", "EGL_BAD_DISPLAY",
                                   "EGL_NOT_INITIALIZED"})
         => /\ result' = "void"
            /\ Len(calls') = 2
            /\ UNCHANGED mgr
            /\ UNCHANGED <<eglInitialized, eglSurfaces, eglContexts>>]_vars

\* A Present on a rendering manager whose swap failed with EGL_BAD_ALLOC.
C18_Witness ==
    /\ lastOp = "SwapBuffers"
    /\ SwapAnswer(calls) = "EGL_BAD_ALLOC"
    /\ result = "void"
    /\ Rendering

\* C19: the surfaces the manager created and the platform still holds are
\* at most one, the one in the surface handle.
C19_AtMostOneSurface ==
    /\ Cardinality(eglSurfaces) <= 1
    /\ eglSurfaces \subseteq {surface_}

\* C20: when an Init with a window returns true, the manager has a display
\* and a context and the context is valid.
C20_InitSuccessMeansLive ==
    (lastOp = "Init" /\ lastArg = AppWindow /\ result = "true")
        => /\ display_ # EGL_NO_DISPLAY
           /\ context_ # EGL_NO_CONTEXT
           /\ context_valid_

====
